---- MODULE Spec2Model ----
(***************************************************************************)
(* State-machine model of the steam_wishlist_deals client:                 *)
(*   App      (client/src/App.tsx)           Steam ID box, Enter key       *)
(*   Wishlist (components/Wishlist.tsx)      wishlist query, mounts DealsGG*)
(*   DealsGG  (components/DealsGG.tsx)       chunking, one query per chunk,*)
(*                                           aggregate view                *)
(* The query layer (useQuery / useQueries) is modelled as a cache keyed by *)
(* query key: one entry per key, shared by every observer of that key.     *)
(* One model "lookup" is one run of a queryFn as seen by the component     *)
(* (the layer's internal retries of a rejected queryFn are part of it).    *)
(***************************************************************************)
EXTENDS Integers, Sequences, FiniteSets

\* ------------------------------------------------------------------ bounds
\* longest identifier list drawn for the partitioning specification
MaxLen == 101
\* modelled time advances in steps of STALE_TIME / TicksPerWindow
TicksPerWindow == 1

\* ------------------------------------------------------- program constants
BATCH_SIZE == 50
\* staleTime of the chunk queries (DealsGG.tsx:23)
STALE_TIME == 5 * 60 * 1000
\* staleTime of the wishlist query: none given, the query layer's default
WISHLIST_STALE_TIME == 0

VARIABLES
    steamId,          \* App: text of the Steam ID box (sequence of characters)
    displayWishlist,  \* App: whether <Wishlist> is rendered
    wlCache,          \* query cache, keys ['steamUser', steamId]
    mounted,          \* whether <DealsGG> is currently mounted
    appids,           \* DealsGG: the appids prop
    chunks,           \* DealsGG: the memoised chunk list
    ggCache,          \* query cache, keys ['appids', chunk]
    db,               \* the server's wishlist per Steam ID (environment)
    last,             \* history: whether the last step's render of DealsGG reused
                      \* a cached chunk query, and whether the step delivered a
                      \* response for a chunk DealsGG does not show
    enterPressed      \* history: box values that were submitted with Enter

vars == <<steamId, displayWishlist, wlCache, mounted, appids, chunks, ggCache, db,
          last, enterPressed>>

\* ------------------------------------------------------------------ helpers
Min(a, b) == IF a < b THEN a ELSE b

Range(s) == {s[i] : i \in 1..Len(s)}

\* Array.prototype.slice(start, end) on a 0-based array: elements start..end-1,
\* end clipped to the length
Slice(s, start, end) == SubSeq(s, start + 1, Min(end, Len(s)))

RECURSIVE Flatten(_)
\* Array.prototype.flatMap(x => x) over a sequence of sequences
Flatten(ss) == IF ss = <<>> THEN <<>> ELSE Head(ss) \o Flatten(Tail(ss))

\* some enumeration of a finite set
RECURSIVE SetToSeq(_)
SetToSeq(S) == IF S = {} THEN <<>>
               ELSE LET x == CHOOSE y \in S : TRUE IN <<x>> \o SetToSeq(S \ {x})

RECURSIVE SumLen(_)
SumLen(ss) == IF ss = <<>> THEN 0 ELSE Len(Head(ss)) + SumLen(Tail(ss))

\* String.prototype.trim on a sequence of characters
IsSpace(c) == c = " "
RECURSIVE TrimLeft(_)
TrimLeft(s) == IF s # <<>> /\ IsSpace(Head(s)) THEN TrimLeft(Tail(s)) ELSE s
RECURSIVE TrimRight(_)
TrimRight(s) ==
    IF s # <<>> /\ IsSpace(s[Len(s)]) THEN TrimRight(SubSeq(s, 1, Len(s) - 1)) ELSE s
Trim(s) == TrimRight(TrimLeft(s))

\* ------------------------------------------------------------- environment
\* values the user can put in the Steam ID box
SteamIdInputs == { <<>>, <<"7">>, <<"8">> }
\* values the build can put in the box as its default (VITE_STEAM_USER_ID)
DefaultSteamIds == SteamIdInputs \cup { <<" ">> }
NonBlankIds == {s \in SteamIdInputs : Trim(s) # <<>>}
\* keys the user can press in the box
Keys == {"Enter", "1"}
\* the error a rejected request throws: its message and, as the request's
\* config, what was asked for (a Steam ID or a chunk)
RequestError(asked) == [message |-> "Request failed with status code 500", config |-> asked]

\* an identifier list of length n whose i-th appid is ((i-1) mod period) + 1
MkList(n, period) == [i \in 1..n |-> ((i - 1) % period) + 1]

\* wishlists the server can hold: empty, two chunks, two identical chunks
ServerWishlists ==
    << MkList(0, 1),
       MkList(BATCH_SIZE + 1, 3 * BATCH_SIZE),
       MkList(2 * BATCH_SIZE, BATCH_SIZE) >>

\* The two non-blank ids are interchangeable, so of two worlds that differ only
\* by swapping their wishlists one is kept.
ServerDbs ==
    { [id \in NonBlankIds |->
          IF id = <<"7">> THEN ServerWishlists[p[1]] ELSE ServerWishlists[p[2]]] :
      p \in {q \in (1..Len(ServerWishlists)) \X (1..Len(ServerWishlists)) :
                q[1] <= q[2]} }

\* the WishlistItem[] the wishlist endpoint returns for a list of appids
WishlistItems(list) == [i \in 1..Len(list) |-> [appid |-> list[i], priority |-> i]]

\* the games the pricing service has deals for
KnownAppids == 2..(BATCH_SIZE + 1)
IsKnown(a) == a \in KnownAppids

\* the DealsGGItem[] the pricing endpoint returns for a payload: a record per
\* requested appid it has deals for, in request order (possibly [])
DealsFor(payload) ==
    LET known == SelectSeq(payload, IsKnown)
    IN  [i \in 1..Len(known) |-> [appid |-> known[i]]]

\* --------------------------------------------------------------- query layer
NoError == [message |-> "", config |-> <<>>]

\* a query that has just been created and started
NewEntry ==
    [status |-> "pending", hasData |-> FALSE, data |-> <<>>, error |-> NoError,
     fetching |-> TRUE, dataAge |-> 0, errorAge |-> 0]

\* mutant: a newly subscribed observer refetches whatever is not in flight
NeedsFetchAlways(cache, key, staleTime) ==
    key \notin DOMAIN cache \/ ~cache[key].fetching

\* whether observing `key` starts a fetch: no entry yet, or an idle entry that
\* has no data (never loaded, or failed) or whose data is older than staleTime
NeedsFetch(cache, key, staleTime) ==
    \/ key \notin DOMAIN cache
    \/ /\ ~cache[key].fetching
       /\ \/ ~cache[key].hasData
          \/ cache[key].dataAge >= staleTime

\* the entry once a fetch is started on it: without data it goes back to pending
\* and drops its error; with data it refetches in the background
StartFetch(cache, key) ==
    IF key \notin DOMAIN cache THEN NewEntry
    ELSE IF cache[key].hasData THEN [cache[key] EXCEPT !.fetching = TRUE]
    ELSE [cache[key] EXCEPT !.fetching = TRUE, !.status = "pending", !.error = NoError]

\* the keys among `keys` on which a newly subscribed observer starts a fetch
FetchedOnObserve(cache, keys, staleTime) ==
    {k \in keys : NeedsFetch(cache, k, staleTime)}

\* the cache after new observers subscribed to `keys`
Observe(cache, keys, staleTime) ==
    [k \in DOMAIN cache \cup FetchedOnObserve(cache, keys, staleTime) |->
        IF k \in FetchedOnObserve(cache, keys, staleTime)
        THEN StartFetch(cache, k) ELSE cache[k]]

\* the entry after its queryFn resolved with `data`
Resolved(entry, data) ==
    [status |-> "success", hasData |-> TRUE, data |-> data, error |-> NoError,
     fetching |-> FALSE, dataAge |-> 0, errorAge |-> 0]

\* the entry after its queryFn rejected with `err`: data of an earlier success
\* is kept
Rejected(entry, err) ==
    [entry EXCEPT !.status = "error", !.error = err, !.fetching = FALSE,
                  !.errorAge = 0]

\* q.isLoading: first load in flight
IsLoading(q) == q.status = "pending" /\ q.fetching

\* -------------------------------------------------------------------- DealsGG
\* mutant: the loop bound is inclusive
RECURSIVE ChunkLoopInclusive(_, _, _)
ChunkLoopInclusive(ids, i, results) ==
    IF i <= Len(ids)
    THEN ChunkLoopInclusive(ids, i + BATCH_SIZE,
                            Append(results, Slice(ids, i, i + BATCH_SIZE)))
    ELSE results

RECURSIVE ChunkLoop(_, _, _)
ChunkLoop(ids, i, results) ==
    IF i < Len(ids)
    THEN ChunkLoop(ids, i + BATCH_SIZE, Append(results, Slice(ids, i, i + BATCH_SIZE)))
    ELSE results

\* mutant: the first slice is pushed before the bound is tested (do-while)
ChunksDoWhile(ids) == ChunkLoop(ids, BATCH_SIZE, <<Slice(ids, 0, BATCH_SIZE)>>)

\* useMemo(() => { for (i = 0; i < appids.length; i += BATCH_SIZE) ... })
Chunks(ids) == ChunkLoop(ids, 0, <<>>)

\* useQueries({queries: chunks.map(chunk => ({queryKey: ['appids', chunk], ...}))}):
\* the i-th result is the state of the query keyed by the i-th chunk's contents
Queries(ch, cache) == [i \in 1..Len(ch) |-> cache[ch[i]]]

\* truthiness of q.data: undefined is falsy, every array (also []) is truthy
HasDataTruthy(q) == q.hasData
HasError(q) == q.error # NoError
ErrorOf(qs) == [i \in 1..Len(qs) |-> qs[i].error]
DataOf(qs) == [i \in 1..Len(qs) |-> qs[i].data]

\* mutant: every instead of some
AllLoading(qs) == \A i \in 1..Len(qs) : IsLoading(qs[i])

\* const isLoading = queries.some(q => q.isLoading)
AnyLoading(qs) == \E i \in 1..Len(qs) : IsLoading(qs[i])
\* const errors = queries.filter(q => q.error).map(q => q.error)
ErrorsOf(qs) == ErrorOf(SelectSeq(qs, HasError))
\* mutant: the chunks' records are merged last chunk first
Reverse(seq) == [i \in 1..Len(seq) |-> seq[Len(seq) + 1 - i]]
AllDataReversed(qs) == Flatten(Reverse(DataOf(SelectSeq(qs, HasDataTruthy))))

\* const allData = queries.filter(q => q.data).flatMap(q => q.data!)
AllDataOf(qs) == Flatten(DataOf(SelectSeq(qs, HasDataTruthy)))
\* mutant: every settled chunk counts as loaded, failed ones too
IsSettled(q) == q.hasData \/ q.error # NoError
LoadedCountSettled(qs) == Len(SelectSeq(qs, IsSettled))

\* const loadedCount = queries.filter(q => q.data).length
LoadedCountOf(qs) == Len(SelectSeq(qs, HasDataTruthy))

\* mutant: the error line shows the last error instead of the first
DealsViewLastError(ch, cache) ==
    LET errs == ErrorsOf(Queries(ch, cache))
    IN  IF AnyLoading(Queries(ch, cache))
        THEN [kind |-> "loading", loadedCount |-> LoadedCountOf(Queries(ch, cache)),
              total |-> Len(ch)]
        ELSE IF Len(errs) > 0
        THEN [kind |-> "error", error |-> errs[Len(errs)], message |-> errs[Len(errs)].message]
        ELSE [kind |-> "deals", deals |-> AllDataOf(Queries(ch, cache))]

\* mutant: the cards show every cached chunk, not only the current list's
CachedKeys(cache) == DOMAIN cache
DealsViewWholeCache(ch, cache) ==
    IF AnyLoading(Queries(ch, cache))
    THEN [kind |-> "loading", loadedCount |-> LoadedCountOf(Queries(ch, cache)),
          total |-> Len(ch)]
    ELSE IF Len(ErrorsOf(Queries(ch, cache))) > 0
    THEN [kind |-> "error", error |-> ErrorsOf(Queries(ch, cache))[1],
          message |-> ErrorsOf(Queries(ch, cache))[1].message]
    ELSE [kind |-> "deals",
          deals |-> AllDataOf(Queries(ch, cache))
                    \o Flatten(SetToSeq({cache[k].data : k \in CachedKeys(cache) \ Range(ch)}))]

\* what DealsGG returns: the loading line, the error line or the game cards
DealsView(ch, cache) ==
    IF AnyLoading(Queries(ch, cache))
    THEN [kind |-> "loading", loadedCount |-> LoadedCountOf(Queries(ch, cache)),
          total |-> Len(ch)]
    ELSE IF Len(ErrorsOf(Queries(ch, cache))) > 0
    THEN [kind |-> "error", error |-> ErrorsOf(Queries(ch, cache))[1],
          message |-> ErrorsOf(Queries(ch, cache))[1].message]
    ELSE [kind |-> "deals", deals |-> AllDataOf(Queries(ch, cache))]

\* ------------------------------------------------------------------- Wishlist
\* const game_appids = data?.map(game => game.appid) || []
GameAppids(w) == IF w.hasData THEN [i \in 1..Len(w.data) |-> w.data[i].appid] ELSE <<>>

\* whether Wishlist returns <DealsGG>: neither of its two early returns is taken
ShowsDeals(w) == ~IsLoading(w) /\ w.error = NoError

\* keys a render of Wishlist newly subscribes its observer to
WishlistNewKeys(sid, disp) ==
    IF disp /\ ~(displayWishlist /\ sid = steamId) THEN {sid} ELSE {}

\* keys a render of DealsGG newly subscribes observers to: every chunk key on
\* mount, the chunk keys not observed before on a re-render
DealsNewKeys(show, newChunks) ==
    IF ~show THEN {}
    ELSE IF mounted THEN Range(newChunks) \ Range(chunks)
    ELSE Range(newChunks)

\* The render that follows every state change: App renders <Wishlist steamId>
\* when displayWishlist is set, Wishlist subscribes to its query (starting a
\* fetch where needed) and renders <DealsGG appids> unless loading or failed,
\* DealsGG partitions appids and subscribes one query per chunk.
Render(sid, disp, wlc, ggc) ==
    LET wlKeys    == WishlistNewKeys(sid, disp)
        wlc2      == Observe(wlc, wlKeys, WISHLIST_STALE_TIME)
        show      == disp /\ ShowsDeals(wlc2[sid])
        newAppids == IF show THEN GameAppids(wlc2[sid]) ELSE <<>>
        newChunks == Chunks(newAppids)
        ggKeys    == DealsNewKeys(show, newChunks)
    IN  /\ wlCache' = wlc2
        /\ mounted' = show
        /\ appids' = newAppids
        /\ chunks' = newChunks
        /\ ggCache' = Observe(ggc, ggKeys, STALE_TIME)
        /\ last' = [reused |-> ggKeys \ FetchedOnObserve(ggc, ggKeys, STALE_TIME) # {},
                    superseded |-> show /\ \E k \in DOMAIN ggCache \ Range(newChunks) :
                                       ggCache[k].fetching /\ ~ggc[k].fetching]

\* ----------------------------------------------------------------------- App
\* onChange={e => setSteamId(e.target.value)}
Change(v) ==
    /\ v # steamId
    /\ steamId' = v
    /\ Render(v, displayWishlist, wlCache, ggCache)
    /\ UNCHANGED <<displayWishlist, db, enterPressed>>

\* handleEnterKey
KeyDown(key) ==
    /\ IF key = "Enter" /\ Trim(steamId) # <<>>
       THEN /\ displayWishlist' = TRUE
            /\ Render(steamId, TRUE, wlCache, ggCache)
       ELSE UNCHANGED <<displayWishlist, wlCache, mounted, appids, chunks, ggCache,
                        last>>
    /\ UNCHANGED <<steamId, db>>

\* ---------------------------------------------------------------- responses
\* fetchUserWishlist resolves: the wishlist the server holds for the id
WishlistResolve(id) ==
    /\ id \in DOMAIN wlCache /\ wlCache[id].fetching
    /\ id \in DOMAIN db
    /\ Render(steamId, displayWishlist,
              [wlCache EXCEPT ![id] = Resolved(@, WishlistItems(db[id]))], ggCache)
    /\ UNCHANGED <<steamId, displayWishlist, db, enterPressed>>

\* fetchUserWishlist rethrows the request's error
WishlistReject(id) ==
    /\ id \in DOMAIN wlCache /\ wlCache[id].fetching
    /\ Render(steamId, displayWishlist,
              [wlCache EXCEPT ![id] = Rejected(@, RequestError(id))], ggCache)
    /\ UNCHANGED <<steamId, displayWishlist, db, enterPressed>>

\* fetchDealsGG(chunk) resolves with res.data
DealsResolve(payload) ==
    /\ payload \in DOMAIN ggCache /\ ggCache[payload].fetching
    /\ Render(steamId, displayWishlist, wlCache,
              [ggCache EXCEPT ![payload] = Resolved(@, DealsFor(payload))])
    /\ UNCHANGED <<steamId, displayWishlist, db, enterPressed>>

\* mutant: one rejected lookup rejects every lookup in flight (fail fast)
DealsRejectAll(payload) ==
    /\ payload \in DOMAIN ggCache /\ ggCache[payload].fetching
    /\ Render(steamId, displayWishlist, wlCache,
              [k \in DOMAIN ggCache |->
                  IF ggCache[k].fetching
                  THEN Rejected(ggCache[k], RequestError(payload)) ELSE ggCache[k]])
    /\ UNCHANGED <<steamId, displayWishlist, db, enterPressed>>

\* fetchDealsGG(chunk) rethrows the request's error
DealsReject(payload) ==
    /\ payload \in DOMAIN ggCache /\ ggCache[payload].fetching
    /\ Render(steamId, displayWishlist, wlCache,
              [ggCache EXCEPT ![payload] = Rejected(@, RequestError(payload))])
    /\ UNCHANGED <<steamId, displayWishlist, db, enterPressed>>

\* TickMs of time pass: cached pricing data ages (up to STALE_TIME, past which
\* its age no longer matters)
TickMs == STALE_TIME \div TicksPerWindow

Aged(entry) ==
    [entry EXCEPT
        !.dataAge = IF entry.hasData THEN Min(@ + TickMs, STALE_TIME) ELSE @,
        !.errorAge = IF entry.error # NoError THEN Min(@ + TickMs, STALE_TIME) ELSE @]

NoRender == [reused |-> FALSE, superseded |-> FALSE]

Tick ==
    /\ \E k \in DOMAIN ggCache : Aged(ggCache[k]) # ggCache[k]
    /\ ggCache' = [k \in DOMAIN ggCache |-> Aged(ggCache[k])]
    /\ last' = NoRender
    /\ UNCHANGED <<steamId, displayWishlist, wlCache, mounted, appids,
                   chunks, db, enterPressed>>

\* ------------------------------------------------------------- specification
Init ==
    /\ steamId \in DefaultSteamIds
    /\ displayWishlist = FALSE
    /\ wlCache = <<>>
    /\ mounted = FALSE
    /\ appids = <<>>
    /\ chunks = <<>>
    /\ ggCache = <<>>
    /\ db \in ServerDbs
    /\ last = NoRender
    /\ enterPressed = {}

\* enterPressed is a history variable: the program's steps leave it alone
Next ==
    \/ \E v \in SteamIdInputs : Change(v)
    \/ \E key \in Keys : KeyDown(key) /\ UNCHANGED enterPressed
    \/ \E id \in SteamIdInputs : WishlistResolve(id)
    \/ \E id \in SteamIdInputs : WishlistReject(id)
    \/ \E p \in DOMAIN ggCache : DealsResolve(p)
    \/ \E p \in DOMAIN ggCache : DealsReject(p)
    \/ Tick

Spec == Init /\ [][Next]_vars

\* The same program with the history of submitted box values recorded: a press
\* of Enter on a non-blank box adds the box's value to enterPressed.
Submit(key) ==
    enterPressed' = IF key = "Enter" /\ Trim(steamId) # <<>>
                    THEN enterPressed \cup {steamId} ELSE enterPressed

NextHistory ==
    \/ \E v \in SteamIdInputs : Change(v)
    \/ \E key \in Keys : KeyDown(key) /\ Submit(key)
    \/ \E id \in SteamIdInputs : WishlistResolve(id)
    \/ \E id \in SteamIdInputs : WishlistReject(id)
    \/ \E p \in DOMAIN ggCache : DealsResolve(p)
    \/ \E p \in DOMAIN ggCache : DealsReject(p)
    \/ Tick

SpecHistory == Init /\ [][NextHistory]_vars

\* DealsGG rendered on its own with an arbitrary appids prop: its first render
\* partitions the list and subscribes one query per chunk.
AppidPeriods == {1, BATCH_SIZE, MaxLen + 1}
AppidLists == {MkList(n, period) : n \in 0..MaxLen, period \in AppidPeriods}

InitChunks ==
    /\ steamId = <<>>
    /\ displayWishlist = FALSE
    /\ wlCache = <<>>
    /\ mounted = FALSE
    /\ appids \in AppidLists
    /\ chunks = <<>>
    /\ ggCache = <<>>
    /\ db \in {d \in ServerDbs : \A id \in NonBlankIds : d[id] = <<>>}
    /\ last = NoRender
    /\ enterPressed = {}

MountDealsGG ==
    /\ ~mounted
    /\ mounted' = TRUE
    /\ chunks' = Chunks(appids)
    /\ ggCache' = Observe(ggCache, Range(chunks'), STALE_TIME)
    /\ last' = NoRender
    /\ UNCHANGED <<steamId, displayWishlist, wlCache, appids, db, enterPressed>>

NextChunks == MountDealsGG

SpecChunks == InitChunks /\ [][NextChunks]_vars

\* ===================================================================== claims
\* the chunk queries and the view of the mounted DealsGG
queries == Queries(chunks, ggCache)
View == DealsView(chunks, ggCache)
ChunkIdx == 1..Len(chunks)
PendingChunks == {i \in ChunkIdx : queries[i].status = "pending"}
SucceededChunks == {i \in ChunkIdx : queries[i].status = "success"}
FailedChunks == {i \in ChunkIdx : queries[i].status = "error"}
Minimum(S) == CHOOSE x \in S : \A y \in S : x <= y

\* a step starts a lookup for key k
LookupStarted(k) ==
    /\ k \in DOMAIN ggCache'
    /\ \/ k \notin DOMAIN ggCache
       \/ ~ggCache[k].fetching /\ ggCache'[k].fetching

\* a step delivers the response of key k's lookup
LookupSettled(k) ==
    k \in DOMAIN ggCache /\ ggCache[k].fetching /\ ~ggCache'[k].fetching

\* C1: a list of N identifiers is partitioned into ceil(N / 50) chunks, the i-th
\* being the contiguous slice of identifiers 50(i-1)+1 .. min(50i, N); N = 50
\* gives one chunk, N = 51 gives two (50 + 1); the chunks concatenated in order
\* are the list.
C1_Partition ==
    mounted =>
        LET N == Len(appids) IN
        /\ Len(chunks) = (N + 49) \div 50
        /\ \A i \in 1..Len(chunks) :
              /\ Len(chunks[i]) = Min(50, N - 50 * (i - 1))
              /\ \A j \in 1..Len(chunks[i]) : chunks[i][j] = appids[50 * (i - 1) + j]
        /\ (N = 50 => Len(chunks) = 1)
        /\ (N = 51 => Len(chunks) = 2 /\ Len(chunks[1]) = 50 /\ Len(chunks[2]) = 1)
        /\ Flatten(chunks) = appids

C1_Witness ==
    mounted /\ Len(appids) = 51 /\ Len(chunks) = 2 /\ appids[51] = appids[1]

\* C2: while any chunk is pending the view is the loading line, whatever the
\* other chunks' states; no cards and no error line are rendered.
C2_PendingGates ==
    mounted => (PendingChunks # {} => View.kind = "loading")

C2_Witness ==
    mounted /\ PendingChunks # {} /\ FailedChunks # {} /\ View.kind = "loading"

\* C3: the view is the error line exactly when no chunk is pending and some chunk
\* has failed; the error shown is that of the failed chunk of lowest index, and
\* no card is rendered.
C3_FailedAggregate ==
    mounted =>
        /\ (View.kind = "error") <=> (PendingChunks = {} /\ FailedChunks # {})
        /\ View.kind = "error" =>
              /\ View.error = queries[Minimum(FailedChunks)].error
              /\ View.message = queries[Minimum(FailedChunks)].error.message

C3_Witness ==
    /\ mounted /\ View.kind = "error"
    /\ \E i \in SucceededChunks, j \in FailedChunks : Len(queries[i].data) > 0

\* C4: the view is the cards only when every chunk has succeeded, and then the
\* cards are chunk 1's records, then chunk 2's, ...: as many as the chunks
\* returned together, whatever the order the responses arrived in.
C4_SucceededAggregate ==
    mounted =>
        (View.kind = "deals" =>
            /\ SucceededChunks = ChunkIdx
            /\ Len(View.deals) = SumLen(DataOf(queries))
            /\ \A i \in ChunkIdx : \A j \in 1..Len(queries[i].data) :
                  View.deals[SumLen(SubSeq(DataOf(queries), 1, i - 1)) + j]
                      = queries[i].data[j])

\* both chunks returned records, and the second chunk's response came first
C4_Witness ==
    /\ mounted /\ View.kind = "deals" /\ Len(chunks) = 2
    /\ Len(queries[1].data) > 0 /\ Len(queries[2].data) > 0
    /\ queries[1].data # queries[2].data
    /\ queries[1].dataAge < queries[2].dataAge

\* C5 as claimed: a render of DealsGG (re-mount or re-render) starts no lookup for
\* a chunk whose lookup is in flight or was settled, successfully or not, less
\* than 5 minutes ago.
InWindow(entry) ==
    \/ entry.fetching
    \/ entry.status = "success" /\ entry.dataAge < STALE_TIME
    \/ entry.status = "error" /\ entry.errorAge < STALE_TIME

C5_NoRefetchInWindow ==
    [][mounted' =>
          \A k \in Range(chunks') \cap DOMAIN ggCache :
              InWindow(ggCache[k]) => ~LookupStarted(k)]_vars

\* C5 as amended: a render of DealsGG starts no lookup for a chunk whose lookup
\* is in flight or whose data was fetched less than 5 minutes ago, and a
\* re-render starts none for a chunk it already showed; a re-mount does look
\* up again a chunk whose last lookup failed.
C5_ReusesCached ==
    [][mounted' =>
          \A k \in Range(chunks') \cap DOMAIN ggCache :
              (\/ ggCache[k].fetching
               \/ ggCache[k].hasData /\ ggCache[k].dataAge < STALE_TIME
               \/ mounted /\ k \in Range(chunks))
              => ~LookupStarted(k)]_vars

C5_Witness ==
    mounted /\ last.reused /\ chunks # <<>>

\* C6: once the list has changed, a response for a chunk that is not among the
\* current chunks leaves the view as it was, and the cards only ever show games
\* of the current list.
C6_ShowsCurrentList ==
    mounted /\ View.kind = "deals" =>
        \A j \in 1..Len(View.deals) : View.deals[j].appid \in Range(appids)

C6_SupersededStep ==
    (/\ mounted /\ mounted' /\ chunks' = chunks
     /\ \E k \in DOMAIN ggCache \ Range(chunks) : LookupSettled(k))
    => DealsView(chunks', ggCache') = DealsView(chunks, ggCache)

C6_Superseded == []C6_ShowsCurrentList /\ [][C6_SupersededStep]_vars

C6_Witness ==
    mounted /\ last.superseded /\ chunks # <<>> /\ View.kind = "deals"

\* C7: every chunk of the mounted list has its lookup under way or settled (none
\* waits for another); settling one lookup changes no other chunk's state; and
\* the data a chunk holds is the response to its own payload.
C7_AllIssued ==
    mounted => \A i \in ChunkIdx :
        /\ chunks[i] \in DOMAIN ggCache
        /\ queries[i].fetching \/ queries[i].hasData \/ queries[i].error # NoError

C7_OwnResponse ==
    \A k \in DOMAIN ggCache : ggCache[k].hasData => ggCache[k].data = DealsFor(k)

C7_SettleStep ==
    \A k \in DOMAIN ggCache :
        LookupSettled(k) => \A o \in DOMAIN ggCache \ {k} : ggCache'[o] = ggCache[o]

C7_Independent ==
    [](C7_AllIssued /\ C7_OwnResponse) /\ [][C7_SettleStep]_vars

C7_Witness ==
    /\ mounted
    /\ \E i \in FailedChunks, j \in SucceededChunks :
          /\ ~queries[i].hasData
          /\ queries[j].data = DealsFor(chunks[j]) /\ Len(queries[j].data) > 0

\* C8: with an empty list DealsGG has no chunk, shows the (empty) cards from its
\* first render on, never the loading or the error line, and its render starts
\* no lookup.
C8_EmptyView ==
    mounted /\ appids = <<>> =>
        /\ chunks = <<>>
        /\ View = [kind |-> "deals", deals |-> <<>>]
        /\ <<>> \notin DOMAIN ggCache

C8_EmptyStep ==
    mounted' /\ appids' = <<>> => \A k \in DOMAIN ggCache' : ~LookupStarted(k)

C8_EmptyList == []C8_EmptyView /\ [][C8_EmptyStep]_vars

\* the empty list is shown while lookups of an earlier list are still in flight
C8_Witness ==
    mounted /\ appids = <<>> /\ \E k \in DOMAIN ggCache : ggCache[k].fetching

\* C9: a wishlist fetch has been issued only for non-blank box values that were
\* submitted with Enter.
C9_EnterStartsFetch ==
    \A id \in DOMAIN wlCache : Trim(id) # <<>> /\ id \in enterPressed

\* C10 as claimed: on the loading line, k is the number of chunks in the
\* succeeded state, T the number of chunks, and 0 <= k < T.
C10_CountsSucceeded ==
    mounted /\ View.kind = "loading" =>
        /\ View.total = Len(chunks)
        /\ View.loadedCount = Cardinality(SucceededChunks)
        /\ 0 <= View.loadedCount /\ View.loadedCount < View.total

\* C10 as amended: k is the number of chunks that hold the data of a successful
\* lookup: the succeeded chunks and the failed chunks whose failed lookup was a
\* refetch; pending chunks and failed chunks without data are not counted.
C10_CountsLoaded ==
    mounted /\ View.kind = "loading" =>
        /\ View.total = Len(chunks)
        /\ View.loadedCount =
              Cardinality(SucceededChunks \cup {i \in FailedChunks : queries[i].hasData})
        /\ \A i \in PendingChunks : ~queries[i].hasData
        /\ 0 <= View.loadedCount /\ View.loadedCount < View.total

C10_Witness ==
    /\ mounted /\ View.kind = "loading" /\ View.loadedCount = 1
    /\ \E i \in FailedChunks : queries[i].hasData

====
